---- MODULE Spec2Model ----
(***************************************************************************)
(* id-tracker.cpp: a sparse ordered set of identifiers kept as a map from  *)
(* block index (id >> BLOCK_BITS) to a block of BLOCK_SIZE presence bits   *)
(* packed in 32-bit words, with a cached scan cursor (next_start) and a    *)
(* guard (old_id) for the ordering assertion of pop_mark.                  *)
(*                                                                         *)
(* Encodings.  A uint32_t word is the set of its set bit positions (a      *)
(* subset of 0..31): word == 0 is {}, (word & 1) is 0 \in word.  The       *)
(* vector `bits` of a block, BLOCK_SIZE >> 5 words that start as 0, is the *)
(* function from the indices of its non-zero words to those words; every   *)
(* other index holds 0.  boost::optional<size_t> is a sequence of length   *)
(* 0 (boost::none) or 1.  std::map<osmid_t, block> is a function whose     *)
(* domain is the key set; begin() is the entry with the least key.         *)
(*                                                                         *)
(* History variables.  call is the last call with its result, pre what was *)
(* observable before it, marked the abstract set (marked minus popped),    *)
(* last_pop the last pop_mark with no write since, touched the block       *)
(* indices of all ids ever marked, and ref the block map of a reference    *)
(* tracker that has no cursor and scans every block from offset 0.         *)
(***************************************************************************)
EXTENDS Integers, FiniteSets, Sequences, TLC

VARIABLES pending, old_id, next_start, call, marked, last_pop, pre, ns,
          ref, touched

vars == <<pending, old_id, next_start, call, marked, last_pop, pre, ns,
          ref, touched>>

(* ---------------- constants of the program ---------------- *)

BLOCK_BITS == 16
BLOCK_SIZE == 2 ^ BLOCK_BITS
BLOCK_MASK == BLOCK_SIZE - 1
\* the word geometry of block: i >> 5 is i \div WORD_BITS, i & 0x1f is
\* i % WORD_BITS, BLOCK_SIZE >> 5 is WORDS
WORD_SHIFT == 5
WORD_BITS == 2 ^ WORD_SHIFT
WORDS == BLOCK_SIZE \div WORD_BITS

(* ---------------- bounds of the model ---------------- *)

\* width of osmid_t in the model; identifiers are 0 .. 2^ID_BITS - 1
ID_BITS == 18

\* osmid_t is an unsigned integer; its numeric_limits
OSMID_MIN == 0
OSMID_MAX == (2 ^ ID_BITS) - 1

\* the last block index of the identifier range
TOP_BLOCK == OSMID_MAX \div BLOCK_SIZE

\* identifiers the callers mark: three in word 0 of block 0 (the smallest
\* identifier among them), one in word 1 of block 0, the first of block 1
\* and a later one of block 1, and the largest identifier (bit 31 of the
\* last word of the last block)
MarkIds == {0, 3, 5, 40, BLOCK_SIZE, 70000, OSMID_MAX}

\* identifiers the callers test: those, a never-marked neighbour in a word
\* that holds marks, a never-marked one in block 1, and one in a block that
\* no mark touches
ProbeIds == MarkIds \cup {1, BLOCK_SIZE + 1, 2 * BLOCK_SIZE}

NONE == <<>>
Some(v) == <<v>>

Min(S) == CHOOSE m \in S : \A x \in S : m <= x
Max(S) == CHOOSE m \in S : \A x \in S : m >= x

(* ---------------- struct block ---------------- *)

\* block(): bits(BLOCK_SIZE >> 5, 0)
new_block == <<>>

\* bits[w]
word(b, w) == IF w \in DOMAIN b THEN b[w] ELSE {}

\* bits[w] = v
store(b, w, v) ==
    IF v = {}
    THEN [x \in (DOMAIN b) \ {w} |-> b[x]]
    ELSE [x \in (DOMAIN b) \cup {w} |-> IF x = w THEN v ELSE b[x]]

\* operator[](i): (bits[i >> 5] & (1 << (i & 0x1f))) > 0
block_get(b, i) == (i % WORD_BITS) \in word(b, i \div WORD_BITS)

\* block::set that flips the bit when value is true (bit ^= mask)
block_set_toggle(b, i, value) ==
    LET w == i \div WORD_BITS
        mask == i % WORD_BITS
    IN  IF value /\ mask \notin word(b, w)
        THEN store(b, w, word(b, w) \cup {mask})
        ELSE store(b, w, word(b, w) \ {mask})

\* set(i, value): bit |= mask, or bit &= ~mask
block_set(b, i, value) ==
    LET w == i \div WORD_BITS
        mask == i % WORD_BITS
    IN  IF value
        THEN store(b, w, word(b, w) \cup {mask})
        ELSE store(b, w, word(b, w) \ {mask})

\* the first loop of next_set: from bit_i, skip the words that are 0; the
\* result is the first index at or after bit_i whose word is not 0, or
\* BLOCK_SIZE >> 5 past the last word
skip_zero_words(b, bit_i) ==
    LET nz == {j \in DOMAIN b : j >= bit_i /\ j < WORDS}
    IN  IF nz = {} THEN (IF bit_i > WORDS THEN bit_i ELSE WORDS) ELSE Min(nz)

\* bit >>= 1
shr1(bit) == {k - 1 : k \in bit \ {0}}

\* a second loop that resolves the highest set bit of the word
resolve_bit_high(bit, idx) == idx + Max(bit)

\* the second loop of next_set: while ((bit & 1) == 0) { ++idx; bit >>= 1; }
RECURSIVE resolve_bit(_, _)
resolve_bit(bit, idx) ==
    IF 0 \notin bit THEN resolve_bit(shr1(bit), idx + 1) ELSE idx

\* next_set that returns the last offset, not BLOCK_SIZE, when no bit is set
next_set_last(b, start) ==
    LET bit_i == skip_zero_words(b, start \div WORD_BITS)
    IN  IF bit_i >= WORDS
        THEN BLOCK_SIZE - 1
        ELSE resolve_bit(b[bit_i], bit_i * WORD_BITS)

\* next_set(start)
next_set(b, start) ==
    LET bit_i == skip_zero_words(b, start \div WORD_BITS)
    IN  IF bit_i >= WORDS
        THEN BLOCK_SIZE
        ELSE resolve_bit(b[bit_i], bit_i * WORD_BITS)

(* ---------------- id_tracker::pimpl ---------------- *)

block_of(id) == id \div BLOCK_SIZE
offset_of(id) == id % BLOCK_SIZE

\* get(id): pending.find(block), false when absent
get(id) ==
    LET blk == block_of(id)
    IN  IF blk \in DOMAIN pending
        THEN block_get(pending[blk], offset_of(id))
        ELSE FALSE

\* an index that hands out a fresh block instead of the stored one
map_index_fresh(p, blk) == new_block

\* pending[block]: the entry, default-constructed when absent
map_index(p, blk) == IF blk \in DOMAIN p THEN p[blk] ELSE new_block

\* a set that looks the block up with find and skips a clear of an absent one
set_pending_find(p, id, value) ==
    LET blk == block_of(id)
        nb == block_set(map_index(p, blk), offset_of(id), value)
    IN  IF ~value /\ blk \notin DOMAIN p
        THEN p
        ELSE [x \in (DOMAIN p) \cup {blk} |-> IF x = blk THEN nb ELSE p[x]]

\* set(id, value): the map after pending[block].set(offset, value)
set_pending(p, id, value) ==
    LET blk == block_of(id)
        nb == block_set(map_index(p, blk), offset_of(id), value)
    IN  [x \in (DOMAIN p) \cup {blk} |-> IF x = blk THEN nb ELSE p[x]]

\* a set that leaves the cursor alone
set_next_start_keep(n) == n

\* set(id, value): if (next_start) { next_start = boost::none; }
set_next_start(n) == NONE

\* the last entry of the map instead of the first
map_rbegin(p) == Max(DOMAIN p)

\* pending.begin(): the entry with the least key
map_begin(p) == Min(DOMAIN p)

\* a pop_min that starts from the smallest value
no_id_min == OSMID_MIN

\* osmid_t id = std::numeric_limits<osmid_t>::max()
no_id == OSMID_MAX

\* an erase that empties the whole map (pending.clear())
map_erase_all(p, blk) == <<>>

\* pending.erase(itr)
map_erase(p, blk) == [x \in (DOMAIN p) \ {blk} |-> p[x]]

\* a resume that starts at the word after the cursor's
get_value_or_next_word(n, d) == IF n = NONE THEN d ELSE n[1] + WORD_BITS

\* next_start.get_value_or(0)
get_value_or(n, d) == IF n = NONE THEN d ELSE n[1]

\* an erase branch that leaves the cursor as it was
erase_next_start_keep(n) == n

\* pop_min(), after pending.erase(itr): next_start = boost::none
erase_next_start(n) == NONE

\* pop_min(): the while loop, from map p and cursor n, with the number of
\* blocks erased so far; ub records a pending.begin() taken on an empty map
RECURSIVE pop_min_loop(_, _, _)
pop_min_loop(p, n, erased) ==
    IF n # NONE \/ DOMAIN p # {}
    THEN IF DOMAIN p = {}
         THEN [pending |-> p, next_start |-> n, id |-> no_id,
               erased |-> erased, ub |-> TRUE]
         ELSE LET first == map_begin(p)
                  b == p[first]
                  start == get_value_or(n, 0)
                  b_itr == next_set(b, start)
              IN  IF b_itr # BLOCK_SIZE
                  THEN [pending |-> [p EXCEPT ![first] = block_set(b, b_itr, FALSE)],
                        next_start |-> Some(b_itr),
                        id |-> first * BLOCK_SIZE + b_itr,
                        erased |-> erased, ub |-> FALSE]
                  ELSE pop_min_loop(map_erase(p, first), erase_next_start(n),
                                    erased + 1)
    ELSE [pending |-> p, next_start |-> n, id |-> no_id,
          erased |-> erased, ub |-> FALSE]

pop_min == pop_min_loop(pending, next_start, 0)

(* ---------------- observers used by the properties ---------------- *)

\* the identifiers whose bit is set in map p
IdsOf(p) ==
    UNION { UNION { { blk * BLOCK_SIZE + w * WORD_BITS + k : k \in p[blk][w] }
                    : w \in DOMAIN p[blk] }
            : blk \in DOMAIN p }

PendingIds == IdsOf(pending)

\* what the callers saw before the call that led to the current state
Snapshot ==
    [ids |-> PendingIds, keys |-> DOMAIN pending,
     next_start |-> next_start, old_id |-> old_id, last_pop |-> last_pop]

(* ---------------- the reference tracker (no cursor) ---------------- *)

\* membership in the reference map
ref_get(id) ==
    /\ block_of(id) \in DOMAIN ref
    /\ block_get(ref[block_of(id)], offset_of(id))

\* the reference pop: the same loop, entered without a cursor
ref_pop == pop_min_loop(ref, NONE, 0)

(* ---------------- id_tracker ---------------- *)

\* pimpl(): pending(), old_id(min()), next_start(boost::none)
Init ==
    /\ pending = <<>>
    /\ old_id = OSMID_MIN
    /\ next_start = NONE
    /\ call = [op |-> "init"]
    /\ marked = {}
    /\ last_pop = NONE
    /\ pre = [ids |-> {}, keys |-> {}, next_start |-> NONE,
              old_id |-> OSMID_MIN, last_pop |-> NONE]
    /\ ns = [op |-> "none"]
    /\ ref = <<>>
    /\ touched = {}

\* a mark that leaves the guard as it was
mark_keep_guard(id) ==
    /\ pending' = set_pending(pending, id, TRUE)
    /\ next_start' = set_next_start(next_start)
    /\ old_id' = old_id
    /\ call' = [op |-> "mark", id |-> id]
    /\ marked' = marked \cup {id}
    /\ last_pop' = NONE
    /\ pre' = Snapshot
    /\ ref' = set_pending(ref, id, TRUE)
    /\ touched' = touched \cup {block_of(id)}
    /\ UNCHANGED ns

\* mark(id): impl->set(id, true); impl->old_id = min()
mark(id) ==
    /\ pending' = set_pending(pending, id, TRUE)
    /\ next_start' = set_next_start(next_start)
    /\ old_id' = OSMID_MIN
    /\ call' = [op |-> "mark", id |-> id]
    /\ marked' = marked \cup {id}
    /\ last_pop' = NONE
    /\ pre' = Snapshot
    /\ ref' = set_pending(ref, id, TRUE)
    /\ touched' = touched \cup {block_of(id)}
    /\ UNCHANGED ns

\* an is_marked that looks the block up with pending[block]
is_marked_index(id) ==
    /\ call' = [op |-> "is_marked", id |-> id, ret |-> get(id),
                ref_ret |-> ref_get(id)]
    /\ pending' = [x \in (DOMAIN pending) \cup {block_of(id)} |->
                       map_index(pending, x)]
    /\ pre' = Snapshot
    /\ UNCHANGED <<old_id, next_start, marked, last_pop, ns, ref, touched>>

\* is_marked(id): return impl->get(id)
is_marked(id) ==
    /\ call' = [op |-> "is_marked", id |-> id, ret |-> get(id),
                ref_ret |-> ref_get(id)]
    /\ pre' = Snapshot
    /\ UNCHANGED <<pending, old_id, next_start, marked, last_pop, ns,
                   ref, touched>>

\* pop_mark(): id = impl->pop_min(); assert(...); impl->old_id = id
pop_mark ==
    LET r == pop_min
    IN  /\ pending' = r.pending
        /\ next_start' = r.next_start
        /\ old_id' = r.id
        /\ call' = [op |-> "pop_mark", ret |-> r.id,
                    assert_ok |-> (r.id > old_id) \/ (r.id = OSMID_MAX),
                    erased |-> r.erased, ub |-> r.ub,
                    ref_ret |-> ref_pop.id]
        /\ marked' = marked \ {r.id}
        /\ last_pop' = Some([id |-> r.id, found |-> r.id \in PendingIds])
        /\ pre' = Snapshot
        /\ ref' = ref_pop.pending
        /\ UNCHANGED <<ns, touched>>

Next ==
    \/ \E id \in MarkIds : mark(id)
    \/ \E id \in ProbeIds : is_marked(id)
    \/ pop_mark

Spec == Init /\ [][Next]_vars

(* ---------------- block::next_set on its own ---------------- *)

\* offsets and starts that exercise next_set: both ends of a word, both ends
\* of the block, and a start inside a word
NSOffsets == {0, 1, 31, 32, 33, BLOCK_MASK}
NSStarts == {0, 1, 2, 31, 32, 33, 34, BLOCK_MASK, BLOCK_SIZE}

\* a block in which exactly the offsets of S were set
RECURSIVE block_with(_)
block_with(S) ==
    IF S = {}
    THEN new_block
    ELSE LET o == Min(S) IN block_set(block_with(S \ {o}), o, TRUE)

\* the offsets whose bit is set in block b
OffsetsOf(b) == UNION { { w * WORD_BITS + k : k \in b[w] } : w \in DOMAIN b }

next_set_call ==
    /\ \E S \in SUBSET NSOffsets, start \in NSStarts :
          ns' = [op |-> "next_set", b |-> block_with(S), start |-> start,
                 ret |-> next_set(block_with(S), start)]
    /\ UNCHANGED <<pending, old_id, next_start, call, marked, last_pop, pre,
                   ref, touched>>

NextNS == next_set_call

SpecNextSet == Init /\ [][NextNS]_vars

(* ---------------- pimpl::set called directly ---------------- *)

\* impl->set(id, value), the internal operation, with either value
pimpl_set(id, value) ==
    /\ pending' = set_pending(pending, id, value)
    /\ next_start' = set_next_start(next_start)
    /\ call' = [op |-> "set", id |-> id, value |-> value]
    /\ marked' = IF value THEN marked \cup {id} ELSE marked \ {id}
    /\ last_pop' = NONE
    /\ pre' = Snapshot
    /\ ref' = set_pending(ref, id, value)
    /\ touched' = IF value THEN touched \cup {block_of(id)} ELSE touched
    /\ UNCHANGED <<old_id, ns>>

\* identifiers set and cleared directly: two words of block 0, the first of
\* block 1, and the first of block 2
ImplIds == {3, 40, BLOCK_SIZE, 2 * BLOCK_SIZE}

NextImpl ==
    \/ \E id \in ImplIds, value \in BOOLEAN : pimpl_set(id, value)
    \/ \E id \in ImplIds : is_marked(id)
    \/ pop_mark

SpecImpl == Init /\ [][NextImpl]_vars

(* ---------------- properties ---------------- *)

\* C1: after any interleaving of mark and pop_mark, is_marked(id) is true
\* exactly for the ids that were marked and not returned by a pop_mark since
\* their last mark: every probed id answers as the abstract set does, and
\* the bits set in the map are exactly that set.
C1_MembershipIsMarkedMinusPopped ==
    /\ \A id \in ProbeIds : get(id) = (id \in marked)
    /\ PendingIds = marked

\* a pop has returned 5, right after the pop that returned 3, while 40 and
\* 70000 still wait
C1_Witness ==
    /\ call.op = "pop_mark" /\ call.ret = 5
    /\ pre.last_pop # NONE /\ pre.last_pop[1].id = 3
    /\ marked = {40, 70000}

\* C2: with an id pending, pop_mark returns the smallest pending id, whatever
\* the block, the order of the marks and the cursor; it removes that id and
\* no other.
C2_PopReturnsSmallestPending ==
    (call.op = "pop_mark" /\ pre.ids # {}) =>
        /\ call.ret = Min(pre.ids)
        /\ PendingIds = pre.ids \ {call.ret}

\* a pop that entered with the cursor left in block 0 by the pop before it
\* returns the first id of block 1 and leaves 70000 pending
C2_Witness ==
    /\ call.op = "pop_mark" /\ call.ret = BLOCK_SIZE
    /\ pre.next_start # NONE /\ pre.next_start[1] > 0
    /\ pre.keys = {0, 1}
    /\ PendingIds = {70000}

\* C3: the assertion of pop_mark (id > old_id, or id == max) holds at every
\* pop_mark, for ids over the whole identifier range, the smallest included.
C3_AssertionNeverViolated ==
    call.op = "pop_mark" => call.assert_ok

\* C4: with no id pending (fresh tracker, or all marked ids popped, all-clear
\* blocks still in the map or not), pop_mark returns the largest identifier
\* value and the pending set stays empty.
C4_EmptyPopReturnsSentinel ==
    (call.op = "pop_mark" /\ pre.ids = {}) =>
        /\ call.ret = OSMID_MAX
        /\ PendingIds = {}

\* a pop found no id while two all-clear blocks were still in the map
C4_Witness ==
    /\ call.op = "pop_mark" /\ pre.ids = {}
    /\ Cardinality(pre.keys) = 2
    /\ call.ret = OSMID_MAX

\* C5: of two consecutive pop_mark calls with no mark between them, neither
\* returning the largest identifier value, the second returns the greater id.
C5_PopsAscendBetweenMarks ==
    (/\ call.op = "pop_mark"
     /\ pre.last_pop # NONE
     /\ pre.last_pop[1].id # OSMID_MAX
     /\ call.ret # OSMID_MAX) =>
        call.ret > pre.last_pop[1].id

\* a pop returned 5 of word 0 right after the pop that returned 3
C5_Witness ==
    /\ call.op = "pop_mark" /\ call.ret = 5
    /\ pre.last_pop # NONE /\ pre.last_pop[1].id = 3
    /\ pre.next_start = Some(3)

\* C6: mark(id) on an id that is already pending leaves the pending set (and
\* the key set of the map) as it was, and the pop_mark that returns an id
\* leaves it not pending, so an id marked twice is popped once.
C6_MarkIsIdempotent ==
    /\ (call.op = "mark" /\ call.id \in pre.ids) =>
           (PendingIds = pre.ids /\ DOMAIN pending = pre.keys)
    /\ (call.op = "pop_mark" /\ call.ret \in pre.ids) =>
           (call.ret \notin PendingIds /\ ~get(call.ret))

\* 40 was marked while 40 and 5 were pending
C6_Witness ==
    /\ call.op = "mark" /\ call.id = 40
    /\ pre.ids = {5, 40}
    /\ PendingIds = {5, 40}

\* the last pop_mark (no mark since) returned a pending id of block blk and
\* left no id of that block pending
EmptiedByLastPop(blk) ==
    /\ last_pop # NONE
    /\ last_pop[1].found
    /\ block_of(last_pop[1].id) = blk
    /\ \A id \in PendingIds : block_of(id) # blk

\* C7 as claimed: after the pop_mark that returns the only pending id of a
\* block, the index of that block is not in the map.
C7_BlockRemovedByEmptyingPop ==
    (call.op = "pop_mark" /\ call.ret \in pre.ids) =>
        (EmptiedByLastPop(block_of(call.ret)) =>
            block_of(call.ret) \notin DOMAIN pending)

\* C7 as amended: after the pop_mark that returns the only pending id of a
\* block, the block is still in the map, all clear; the next pop_mark, with
\* no mark between the two, removes it.
C7_BlockRemovedByFollowingPop ==
    /\ [](\A blk \in 0..TOP_BLOCK :
            EmptiedByLastPop(blk) =>
                (blk \in DOMAIN pending /\ pending[blk] = new_block))
    /\ [][\A blk \in 0..TOP_BLOCK :
            (EmptiedByLastPop(blk) /\ call'.op = "pop_mark") =>
                blk \notin DOMAIN pending']_vars

\* the pop after the one that emptied block 0 erased block 0 and returned
\* 70000 of block 1
C7_Witness ==
    /\ call.op = "pop_mark" /\ call.ret = 70000 /\ call.erased = 1
    /\ pre.last_pop # NONE /\ pre.last_pop[1].found
    /\ block_of(pre.last_pop[1].id) = 0
    /\ pre.keys = {0, 1}
    /\ DOMAIN pending = {1}

\* C8: is_marked(id) changes nothing: the map (keys and bits), the cursor
\* and the guard are the same after the call, also for an id whose block
\* index is not in the map.
C8_IsMarkedDoesNotMutate ==
    [][call'.op = "is_marked" =>
          (pending' = pending /\ next_start' = next_start /\ old_id' = old_id)]_vars

\* is_marked answered false for an id of block 2 while the map held block 0
\* only, with the cursor set
C8_Witness ==
    /\ call.op = "is_marked" /\ call.id = 2 * BLOCK_SIZE /\ ~call.ret
    /\ DOMAIN pending = {0}
    /\ next_start # NONE

\* C9: next_set(start) returns the smallest offset >= start whose bit is
\* set, and BLOCK_SIZE when there is none; never an offset below start.
C9_NextSetAtOrAfterStart ==
    ns.op = "next_set" =>
        LET after == {o \in OffsetsOf(ns.b) : o >= ns.start}
        IN  ns.ret = IF after = {} THEN BLOCK_SIZE ELSE Min(after)

\* C10: while the cursor holds an offset o, the map is not empty, its
\* smallest block is the block of the id the last pop returned, and every
\* offset <= o of that block is clear.
C10_CursorBelowEveryPendingOffset ==
    next_start # NONE =>
        /\ DOMAIN pending # {}
        /\ last_pop # NONE
        /\ block_of(last_pop[1].id) = Min(DOMAIN pending)
        /\ \A o \in OffsetsOf(pending[Min(DOMAIN pending)]) : o > next_start[1]

\* the cursor is at offset 3 of block 0, with 5 and 40 of that block pending
C10_Witness ==
    /\ next_start = Some(3)
    /\ PendingIds = {5, 40}
    /\ DOMAIN pending = {0}

\* C11: the cursor is an optimisation only: every pop_mark returns what the
\* reference tracker (no cursor, every scan from offset 0) returns for the
\* same calls, and every is_marked answers as the reference does.
C11_CursorIsOnlyAnOptimisation ==
    /\ call.op = "pop_mark" => call.ret = call.ref_ret
    /\ call.op = "is_marked" => call.ret = call.ref_ret

\* a pop resumed from the cursor at offset 3 returned 40 of the next word,
\* as the reference did, with 70000 still pending
C11_Witness ==
    /\ call.op = "pop_mark" /\ pre.next_start = Some(3)
    /\ call.ret = 40 /\ call.ref_ret = 40
    /\ PendingIds = {70000}

\* C12 as claimed: every all-clear block in the map is removed by the next
\* pop_mark, whatever was marked before that pop.
C12_AllClearBlockRemovedByNextPop ==
    [][call'.op = "pop_mark" =>
          \A blk \in DOMAIN pending :
              pending[blk] = new_block => blk \notin DOMAIN pending']_vars

\* C12 as amended: the next pop_mark removes an all-clear block of the map
\* exactly when no id of a block with a smaller index is pending at that
\* call; otherwise the block stays, all clear, after that pop.
C12_AllClearBlockRemovedUnlessSmallerPending ==
    [][call'.op = "pop_mark" =>
          \A blk \in DOMAIN pending :
              pending[blk] = new_block =>
                  IF \A id \in PendingIds : block_of(id) > blk
                  THEN blk \notin DOMAIN pending'
                  ELSE blk \in DOMAIN pending' /\ pending'[blk] = new_block]_vars

\* a pop that returned 70000 erased the all-clear block 0 below it and left
\* the all-clear last block in the map
C12_Witness ==
    /\ call.op = "pop_mark" /\ call.ret = 70000 /\ call.erased = 1
    /\ pre.keys = {0, 1, TOP_BLOCK}
    /\ pre.ids = {70000}
    /\ DOMAIN pending = {1, TOP_BLOCK}
    /\ pending[TOP_BLOCK] = new_block

\* C13: after every mark(id) the cursor is absent and the guard is the
\* smallest value, wherever id lies relative to the cursor and its block.
C13_MarkInvalidatesCursorAndGuard ==
    call.op = "mark" => (next_start = NONE /\ old_id = OSMID_MIN)

\* 70000 of block 1 was marked while the cursor stood at offset 3 of block 0
\* and the guard held 3
C13_Witness ==
    /\ call.op = "mark" /\ call.id = 70000
    /\ pre.next_start = Some(3) /\ pre.old_id = 3
    /\ next_start = NONE /\ old_id = OSMID_MIN

\* C14: every block index in the map is the block index of an id passed to
\* an earlier mark, and the block index of every pending id is in the map.
C14_MapKeysComeFromMarks ==
    /\ DOMAIN pending \subseteq touched
    /\ \A id \in marked : block_of(id) \in DOMAIN pending

\* is_marked was asked about block 2, which no mark touched, while blocks 0
\* and 1 were in the map, block 0 all clear
C14_Witness ==
    /\ call.op = "is_marked" /\ call.id = 2 * BLOCK_SIZE
    /\ DOMAIN pending = {0, 1} /\ touched = {0, 1}
    /\ marked = {70000}

\* C15: every pop_mark returns after at most as many erasures as the map
\* held blocks at entry; each erasure took one block out of the map, and
\* the call ends with an id found or with the map empty.
C15_PopErasesAtMostTheBlocksHeld ==
    call.op = "pop_mark" =>
        /\ call.erased <= Cardinality(pre.keys)
        /\ Cardinality(DOMAIN pending) = Cardinality(pre.keys) - call.erased
        /\ (call.ret \in pre.ids \/ DOMAIN pending = {})

\* a pop erased three all-clear blocks, all the map held, and returned
C15_Witness ==
    /\ call.op = "pop_mark" /\ call.erased = 3
    /\ Cardinality(pre.keys) = 3
    /\ DOMAIN pending = {}

\* C16: pop_mark returns the largest identifier value only when no id was
\* pending at the time of the call.
C16_SentinelOnlyWhenNothingPending ==
    (call.op = "pop_mark" /\ call.ret = OSMID_MAX) => pre.ids = {}

\* C17: while the cursor holds a value the map is not empty, and no pop_mark
\* takes pending.begin() of an empty map.
C17_CursorImpliesNonEmptyMap ==
    /\ next_start # NONE => DOMAIN pending # {}
    /\ call.op = "pop_mark" => ~call.ub

\* a pop entered with the cursor set erased the only block and left the
\* loop on the empty map
C17_Witness ==
    /\ call.op = "pop_mark" /\ pre.next_start # NONE
    /\ Cardinality(pre.keys) = 1 /\ call.erased = 1
    /\ DOMAIN pending = {} /\ next_start = NONE /\ ~call.ub

\* C18: a pop_mark called with no id pending returns with the map empty and
\* the cursor absent; another pop_mark, with no mark between, changes
\* nothing of the tracker and returns the largest identifier value again.
C18_EmptyPopDrainsAndRepeats ==
    /\ []((call.op = "pop_mark" /\ pre.ids = {}) =>
            (pending = <<>> /\ next_start = NONE))
    /\ [][(last_pop # NONE /\ ~last_pop[1].found /\ call'.op = "pop_mark") =>
            /\ pending' = pending
            /\ next_start' = next_start
            /\ old_id' = old_id
            /\ call'.ret = OSMID_MAX]_vars

\* the second of two pops with nothing pending, the first of which erased
\* the leftover all-clear blocks
C18_Witness ==
    /\ call.op = "pop_mark" /\ call.ret = OSMID_MAX /\ call.erased = 0
    /\ pre.last_pop # NONE /\ ~pre.last_pop[1].found
    /\ pre.keys = {} /\ pending = <<>>
    /\ touched = {0, 1}

\* C19: set(id, false) on an id whose block index is not in the map adds an
\* all-clear block for that index and clears the cursor; get stays false
\* for every id of that block and no other id changes.
C19_ClearMaterialisesEmptyBlock ==
    (call.op = "set" /\ ~call.value /\ block_of(call.id) \notin pre.keys) =>
        /\ DOMAIN pending = pre.keys \cup {block_of(call.id)}
        /\ pending[block_of(call.id)] = new_block
        /\ next_start = NONE
        /\ \A id \in ProbeIds : block_of(id) = block_of(call.id) => ~get(id)
        /\ PendingIds = pre.ids

\* the first id of block 2 was cleared while the map held block 0 only, 40
\* pending in it and the cursor at offset 3
C19_Witness ==
    /\ call.op = "set" /\ ~call.value /\ call.id = 2 * BLOCK_SIZE
    /\ pre.keys = {0} /\ pre.next_start = Some(3) /\ pre.ids = {40}
    /\ DOMAIN pending = {0, 2}

====
